---- MODULE Spec2Model ----
(***************************************************************************)
(* Model of loops/train_loop.py: train_loop(model, train_loader, opt,      *)
(* sent_ret_loss_fn, sign_ret_loss_fn, sign_cls_loss_fn, epoch, cfg).      *)
(*                                                                         *)
(* One action per statement group of the loop body.  The model, the loss   *)
(* functions, the optimizer and wandb are external: a loss value is an     *)
(* arbitrary element of LossValues, and an external call may raise.  No    *)
(* try/except exists in the function, so a raised exception ends the call  *)
(* (pc = "raised").  Tensors are sequences of integers; python floats that *)
(* result from the true division of the return statement are kept as       *)
(* <<numerator, denominator>>.                                             *)
(***************************************************************************)
EXTENDS Integers, Sequences, FiniteSets, TLC

\* ------------------------------------------------------------------ bounds
MaxBatches == 2      \* a loader yields 0..MaxBatches batches
MaxEpoch   == 1      \* consecutive calls use epoch 0..MaxEpoch
MaxTargets == 2      \* a sample holds 0..MaxTargets targets

LossValues   == {1, 2}                     \* values a loss function may return
LdaChoices   == {<<1, 2, 3>>, <<2, 0, 1>>} \* (lda_sent_ret, lda_sign_ret, lda_sign_cls)
SampleCounts == {1, 2}                     \* len(subs) of a rich batch
Labels       == {0, 1}                     \* the class labels
\* the targets of the rich batches: frame index and class label
Targets      == {[index |-> 0, label |-> 1], [index |-> 1, label |-> 0]}
\* .grad contents left by whatever ran before the call
Stale        == <<-1, -1>>

\* ----------------------------------------------------------- tensor helpers
RECURSIVE Flatten(_)
\* torch.cat of a python list of 1-D tensors
Flatten(ss) == IF ss = <<>> THEN <<>> ELSE Head(ss) \o Flatten(Tail(ss))

\* [x, x, ..., x] (n times)
Repeat(x, n) == [k \in 1..n |-> x]

\* torch.arange(n)
Arange(n) == [k \in 1..n |-> k - 1]

RECURSIVE RepeatInterleave_swapped(_, _)
\* a wrong repeat_interleave: sample numbers are emitted last sample first
RepeatInterleave_swapped(input, repeats) ==
    IF input = <<>> THEN <<>>
    ELSE RepeatInterleave_swapped(Tail(input), Tail(repeats))
         \o Repeat(Head(input), Head(repeats))

RECURSIVE RepeatInterleave(_, _)
\* torch.repeat_interleave(input, repeats): input[k] repeated repeats[k] times
RepeatInterleave(input, repeats) ==
    IF input = <<>> THEN <<>>
    ELSE Repeat(Head(input), Head(repeats))
         \o RepeatInterleave(Tail(input), Tail(repeats))

RECURSIVE SumSeq(_)
SumSeq(s) == IF s = <<>> THEN 0 ELSE Head(s) + SumSeq(Tail(s))

\* python values
Unbound     == [kind |-> "unbound"]
List(v)     == [kind |-> "list", val |-> v]       \* python list of tensors
Tensor(v)   == [kind |-> "tensor", val |-> v]     \* 1-D integer tensor
Scalar(v)   == [kind |-> "scalar", val |-> v]     \* loss tensor with one element
Matrix(v)   == [kind |-> "matrix", val |-> v]     \* 2-D tensor, a sequence of rows

\* one_hot_target: zeros_like(predicted_logits) with [k, labels[k]] set to 1
OneHot(labels) ==
    Matrix([k \in 1..Len(labels) |->
              [c \in Labels |-> IF c = labels[k] THEN 1 ELSE 0]])

\* x[target_indices_batch_idx, target_indices]: the positions selected
IndexPairs(bidx, tidx) == [k \in 1..Len(bidx) |-> <<bidx[k], tidx[k]>>]

\* ------------------------------------------------------------------ batches
\* A batch is a sequence of samples, a sample the sequence of its targets,
\* a target the frame index it sits at and its class label.
SeqsUpTo(S, lo, hi) == UNION {[1..n -> S] : n \in lo..hi}

Samples == SeqsUpTo(Targets, 0, MaxTargets)

RichBatches == UNION {[1..n -> Samples] : n \in SampleCounts}

\* the batches of the control-flow specifications: one sample, 0 or 1 target
PlainBatches == {<< <<>> >>, << <<[index |-> 1, label |-> 0]>> >>}

\* the fields of the batch tuple that train_loop reads
Subs(batch)          == [i \in 1..Len(batch) |-> i]
TargetIndices(batch) == [i \in 1..Len(batch) |->
                           [j \in 1..Len(batch[i]) |-> batch[i][j].index]]
TargetLabels(batch)  == [i \in 1..Len(batch) |->
                           [j \in 1..Len(batch[i]) |-> batch[i][j].label]]

\* -------------------------------------------------------------------- state
VARIABLES
    cfg,                  \* do_print, distributed, bce, lda_*
    cuda_available,       \* torch.cuda.is_available()
    sent_ret_loss_fn,     \* TRUE: provided, FALSE: None
    sign_ret_loss_fn,
    sign_cls_loss_fn,
    epoch,
    last_epoch,           \* the caller's last epoch
    train_loader,         \* the batches the loader yields, in order
    pc,                   \* position in train_loop
    exc,                  \* the exception that left train_loop, or "none"
    batch_idx,
    target_indices, target_labels, target_indices_batch_idx,
    sent_ret, sign_ret, sign_cls, total_loss,
    current,              \* current_loss, current_sent_ret, ...
    total_train_loss, total_sent_ret, total_sign_ret, total_sign_cls,
    grads,                \* batches whose gradient sits in the .grad fields
    result,               \* the returned tuple, <<>> before the return
    events,               \* what ran in the current iteration, in order
    calls,                \* external calls made by this call of train_loop
    forwarded,            \* batches handed to the model, in order
    backpropagated,       \* the values backward() was called on, in order
    applied,              \* per opt.step(): the batches in the .grad fields
    recorded,             \* per accumulated batch: its four metrics
    sign_cls_args,        \* arguments of the last sign_cls_loss_fn call
    sign_ret_args,        \* arguments of the last sign_ret_loss_fn call
    wandb_log             \* what wandb.log received, over all calls

inputs == <<cfg, cuda_available, sent_ret_loss_fn, sign_ret_loss_fn,
            sign_cls_loss_fn, last_epoch, train_loader>>
locals == <<target_indices, target_labels, target_indices_batch_idx,
            sent_ret, sign_ret, sign_cls, total_loss, current>>
totals == <<total_train_loss, total_sent_ret, total_sign_ret, total_sign_cls>>
traces == <<grads, result, events, calls, forwarded, backpropagated, applied,
            recorded, sign_cls_args, sign_ret_args, wandb_log>>
vars   == <<inputs, epoch, pc, exc, batch_idx, locals, totals, traces>>

NoCalls == [forward |-> 0, backward |-> 0, step |-> 0, sent_ret_loss_fn |-> 0,
            sign_ret_loss_fn |-> 0, sign_cls_loss_fn |-> 0]

\* len(train_loader)
LenLoader == Len(train_loader)

\* lines 42-47: model.train(), the totals, the device, the iterator
Entry ==
    /\ pc = "loop"
    /\ exc = "none"
    /\ batch_idx = -1
    /\ target_indices = Unbound
    /\ target_labels = Unbound
    /\ target_indices_batch_idx = Unbound
    /\ sent_ret = Unbound
    /\ sign_ret = Unbound
    /\ sign_cls = Unbound
    /\ total_loss = Unbound
    /\ current = Unbound
    /\ total_train_loss = 0
    /\ total_sent_ret = 0
    /\ total_sign_ret = 0
    /\ total_sign_cls = 0
    /\ result = <<>>
    /\ events = <<>>
    /\ calls = NoCalls
    /\ forwarded = <<>>
    /\ backpropagated = <<>>
    /\ applied = <<>>
    /\ recorded = <<>>
    /\ sign_cls_args = Unbound
    /\ sign_ret_args = Unbound

\* cfg.distributed only selects the tensors handed to sent_ret_loss_fn (this
\* process's, or all processes' gathered); the model keeps no tensor contents
\* of the sentence loss, so the flag is left out of cfg.
Configs ==
    [do_print : BOOLEAN, bce : BOOLEAN,
     lda_sent_ret : {l[1] : l \in LdaChoices},
     lda_sign_ret : {l[2] : l \in LdaChoices},
     lda_sign_cls : {l[3] : l \in LdaChoices}]

\* one call of train_loop, any configuration, plain batches
Init ==
    /\ cfg \in {c \in Configs :
                 <<c.lda_sent_ret, c.lda_sign_ret, c.lda_sign_cls>> \in LdaChoices}
    /\ cuda_available \in BOOLEAN
    /\ sent_ret_loss_fn \in BOOLEAN
    /\ sign_ret_loss_fn \in BOOLEAN
    /\ sign_cls_loss_fn \in BOOLEAN
    /\ epoch = 0
    /\ last_epoch = epoch
    /\ train_loader \in SeqsUpTo(PlainBatches, 0, MaxBatches)
    /\ grads \in {{}, {Stale}}
    /\ wandb_log = <<>>
    /\ Entry

\* ------------------------------------------------------------------ actions
Batch == train_loader[batch_idx + 1]

Emit(e) == events' = Append(events, e)

Count(f) == calls' = [calls EXCEPT ![f] = @ + 1]

\* the value of a provided loss function, part of the autograd graph
Loss(v) == [kind |-> "scalar", val |-> v, requires_grad |-> TRUE]

\* the stand-in of a missing loss is not zero
ZeroTerm_one == [kind |-> "scalar", val |-> 1, requires_grad |-> FALSE]

\* lines 71, 98, 110: torch.tensor([0]).to(device)
ZeroTerm == [kind |-> "scalar", val |-> 0, requires_grad |-> FALSE]

\* an exception leaves train_loop: nothing catches it
Propagate(e) ==
    /\ pc' = "raised"
    /\ exc' = e

\* line 48: the next batch of the loader, or the end of the loop
NextBatch ==
    /\ pc = "loop"
    /\ IF batch_idx + 1 < LenLoader
         THEN /\ batch_idx' = batch_idx + 1
              /\ events' = <<>>
              /\ pc' = "zero_grad"
         ELSE /\ pc' = "return"
              /\ UNCHANGED <<batch_idx, events>>
    /\ UNCHANGED <<inputs, epoch, exc, locals, totals, grads, result, calls,
                   forwarded, backpropagated, applied, recorded,
                   sign_cls_args, sign_ret_args, wandb_log>>

\* zero_grad forgotten: the .grad fields keep what they hold
ZeroedGrads_kept(g) == g

\* lines 49-50: what the .grad fields hold after model.zero_grad(), opt.zero_grad()
ZeroedGrads(g) == {}

\* lines 49-50
ZeroGrad ==
    /\ pc = "zero_grad"
    /\ grads' = ZeroedGrads(grads)
    /\ Emit("zero_grad")
    /\ pc' = "forward"
    /\ UNCHANGED <<inputs, epoch, exc, batch_idx, locals, totals, result, calls,
                   forwarded, backpropagated, applied, recorded,
                   sign_cls_args, sign_ret_args, wandb_log>>

\* lines 52-61: unpack the batch, forward pass
Forward ==
    /\ pc = "forward"
    /\ target_indices' = List(TargetIndices(Batch))
    /\ target_labels' = List(TargetLabels(Batch))
    /\ forwarded' = Append(forwarded, Batch)
    /\ Count("forward")
    /\ Emit("forward")
    /\ pc' = "sent_ret"
    /\ UNCHANGED <<inputs, epoch, exc, batch_idx, target_indices_batch_idx,
                   sent_ret, sign_ret, sign_cls, total_loss, current, totals,
                   grads, result, backpropagated, applied, recorded,
                   sign_cls_args, sign_ret_args, wandb_log>>

\* lines 65-71: SentRet
SentRet ==
    /\ pc = "sent_ret"
    /\ IF sent_ret_loss_fn
         THEN /\ \E v \in LossValues : sent_ret' = Loss(v)
              /\ Count("sent_ret_loss_fn")
              /\ Emit("sent_ret_loss_fn")
         ELSE /\ sent_ret' = ZeroTerm
              /\ UNCHANGED <<calls, events>>
    /\ pc' = "indices"
    /\ UNCHANGED <<inputs, epoch, exc, batch_idx, target_indices, target_labels,
                   target_indices_batch_idx, sign_ret, sign_cls, total_loss,
                   current, totals, grads, result, forwarded, backpropagated,
                   applied, recorded, sign_cls_args, sign_ret_args, wandb_log>>

\* lines 74-81: where to compute SignCls and SignRet
ComputeIndices ==
    /\ pc = "indices"
    /\ IF sign_cls_loss_fn \/ sign_ret_loss_fn
         THEN /\ target_indices_batch_idx' =
                    Tensor(RepeatInterleave(
                        Arange(Len(Subs(Batch))),
                        [i \in 1..Len(target_indices.val) |->
                            Len(target_indices.val[i])]))
              /\ target_indices' = Tensor(Flatten(target_indices.val))
              /\ Emit("indices")
         ELSE UNCHANGED <<target_indices_batch_idx, target_indices, events>>
    /\ pc' = "sign_cls"
    /\ UNCHANGED <<inputs, epoch, exc, batch_idx, target_labels, sent_ret,
                   sign_ret, sign_cls, total_loss, current, totals, grads,
                   result, calls, forwarded, backpropagated, applied, recorded,
                   sign_cls_args, sign_ret_args, wandb_log>>

\* the one-hot targets are left in target_labels
LabelsAfterSignCls_kept(labels, target) == target

\* lines 93-96: target_labels after the SignCls call (temp_target_labels restored)
LabelsAfterSignCls(labels, target) == labels

\* lines 84-98: SignCls
SignCls ==
    /\ pc = "sign_cls"
    /\ IF sign_cls_loss_fn
         THEN LET labels == Tensor(Flatten(target_labels.val))
                  predicted_logits ==
                      IndexPairs(target_indices_batch_idx.val, target_indices.val)
                  target == IF cfg.bce THEN OneHot(labels.val) ELSE labels
              IN  /\ sign_cls_args' = [predicted_logits |-> predicted_logits,
                                       target_labels |-> target]
                  /\ \E v \in LossValues : sign_cls' = Loss(v)
                  /\ target_labels' = LabelsAfterSignCls(labels, target)
                  /\ calls' = [calls EXCEPT !.sign_cls_loss_fn = @ + 1]
                  /\ events' = events \o <<"cat_labels", "sign_cls_loss_fn">>
         ELSE /\ sign_cls' = ZeroTerm
              /\ UNCHANGED <<sign_cls_args, target_labels, calls, events>>
    /\ pc' = "sign_ret"
    /\ UNCHANGED <<inputs, epoch, exc, batch_idx, target_indices,
                   target_indices_batch_idx, sent_ret, sign_ret, total_loss,
                   current, totals, grads, result, forwarded, backpropagated,
                   applied, recorded, sign_ret_args, wandb_log>>

\* line 102: whether SignRet concatenates the labels itself
CatInSignRet == ~sign_cls_loss_fn

\* lines 101-110: SignRet
SignRet ==
    /\ pc = "sign_ret"
    /\ IF sign_ret_loss_fn
         THEN IF CatInSignRet /\ target_labels.kind # "list"
                THEN \* torch.cat of a tensor that is no list of tensors raises
                     /\ Propagate("cat")
                     /\ UNCHANGED <<sign_ret, sign_ret_args, target_labels,
                                    calls, events>>
                ELSE LET labels == IF CatInSignRet
                                     THEN Tensor(Flatten(target_labels.val))
                                     ELSE target_labels
                     IN  /\ target_labels' = labels
                         /\ sign_ret_args' =
                              [video_tokens |->
                                  IndexPairs(target_indices_batch_idx.val,
                                             target_indices.val),
                               labels |-> labels]
                         /\ \E v \in LossValues : sign_ret' = Loss(v)
                         /\ calls' = [calls EXCEPT !.sign_ret_loss_fn = @ + 1]
                         /\ events' = events \o
                              (IF CatInSignRet THEN <<"cat_labels">> ELSE <<>>)
                              \o <<"sign_ret_loss_fn">>
                         /\ pc' = "sum"
                         /\ UNCHANGED exc
         ELSE /\ sign_ret' = ZeroTerm
              /\ pc' = "sum"
              /\ UNCHANGED <<sign_ret_args, target_labels, calls, events, exc>>
    /\ UNCHANGED <<inputs, epoch, batch_idx, target_indices,
                   target_indices_batch_idx, sent_ret, sign_cls, total_loss,
                   current, totals, grads, result, forwarded, backpropagated,
                   applied, recorded, sign_cls_args, wandb_log>>

\* the weights of the sign terms exchanged
TotalLoss_swapped(c, sent, ret, cls) ==
    c.lda_sent_ret * sent + c.lda_sign_cls * ret + c.lda_sign_ret * cls

\* lines 113-115: the weighted sum of the three terms
TotalLoss(c, sent, ret, cls) ==
    c.lda_sent_ret * sent + c.lda_sign_ret * ret + c.lda_sign_cls * cls

\* lines 113-115
WeightedSum ==
    /\ pc = "sum"
    /\ total_loss' =
         [kind |-> "scalar",
          val |-> TotalLoss(cfg, sent_ret.val, sign_ret.val, sign_cls.val),
          requires_grad |-> sent_ret.requires_grad \/ sign_ret.requires_grad
                            \/ sign_cls.requires_grad]
    /\ pc' = "backward"
    /\ UNCHANGED <<inputs, epoch, exc, batch_idx, target_indices, target_labels,
                   target_indices_batch_idx, sent_ret, sign_ret, sign_cls,
                   current, totals, traces>>

\* line 117: total_loss.backward() adds this batch's gradient to the .grad
\* fields; on a tensor that is no part of an autograd graph it raises
Backward ==
    /\ pc = "backward"
    /\ IF total_loss.requires_grad
         THEN /\ grads' = grads \cup {<<epoch, batch_idx>>}
              /\ backpropagated' = Append(backpropagated, total_loss.val)
              /\ Count("backward")
              /\ Emit("backward")
              /\ pc' = "step"
              /\ UNCHANGED exc
         ELSE /\ Propagate("no_grad")
              /\ UNCHANGED <<grads, backpropagated, calls, events>>
    /\ UNCHANGED <<inputs, epoch, batch_idx, locals, totals, result, forwarded,
                   applied, recorded, sign_cls_args, sign_ret_args, wandb_log>>

\* line 118: opt.step() applies what the .grad fields hold
OptStep ==
    /\ pc = "step"
    /\ applied' = Append(applied, grads)
    /\ Count("step")
    /\ Emit("step")
    /\ pc' = "sync"
    /\ UNCHANGED <<inputs, epoch, exc, batch_idx, locals, totals, grads, result,
                   forwarded, backpropagated, recorded, sign_cls_args,
                   sign_ret_args, wandb_log>>

\* line 119: torch.cuda.synchronize() raises where CUDA is not available
\* (the device of lines 45-46 is then "cpu")
Synchronize ==
    /\ pc = "sync"
    /\ IF cuda_available
         THEN pc' = "accumulate" /\ UNCHANGED exc
         ELSE Propagate("no_cuda")
    /\ UNCHANGED <<inputs, epoch, batch_idx, locals, totals, traces>>

\* lines 122-129: .detach().item() of the four tensors, added to the totals
Accumulate ==
    /\ pc = "accumulate"
    /\ current' = [loss |-> total_loss.val, sent_ret |-> sent_ret.val,
                   sign_ret |-> sign_ret.val, sign_cls |-> sign_cls.val]
    /\ total_train_loss' = total_train_loss + current'.loss
    /\ total_sent_ret' = total_sent_ret + current'.sent_ret
    /\ total_sign_ret' = total_sign_ret + current'.sign_ret
    /\ total_sign_cls' = total_sign_cls + current'.sign_cls
    /\ recorded' = Append(recorded, current')
    /\ Emit("accumulate")
    /\ pc' = "log"
    /\ UNCHANGED <<inputs, epoch, exc, batch_idx, target_indices, target_labels,
                   target_indices_batch_idx, sent_ret, sign_ret, sign_cls,
                   total_loss, grads, result, calls, forwarded, backpropagated,
                   applied, sign_cls_args, sign_ret_args, wandb_log>>

\* the epoch is added instead of multiplied by the loader's length
TrainIter_added(e, n, b) == e + b

\* line 146: epoch * len(train_loader) + batch_idx
TrainIter(e, n, b) == e * n + b

\* lines 130-148: the progress bar's postfix and wandb.log
Log ==
    /\ pc = "log"
    /\ IF cfg.do_print
         THEN /\ wandb_log' = Append(wandb_log,
                    [train_loss_iter |-> current.loss,
                     train_sent_ret_iter |-> current.sent_ret,
                     train_sign_ret_iter |-> current.sign_ret,
                     train_sign_cls_iter |-> current.sign_cls,
                     train_iter |-> TrainIter(epoch, LenLoader, batch_idx)])
              /\ Emit("log")
         ELSE UNCHANGED <<wandb_log, events>>
    /\ pc' = "loop"
    /\ UNCHANGED <<inputs, epoch, exc, batch_idx, locals, totals, grads, result,
                   calls, forwarded, backpropagated, applied, recorded,
                   sign_cls_args, sign_ret_args>>

\* the sign terms returned in the other order
Returned_swapped(loss, sent, ret, cls, n) ==
    << <<loss, n>>, <<sent, n>>, <<cls, n>>, <<ret, n>> >>

\* lines 149-150: the four totals, each divided by len(train_loader)
Returned(loss, sent, ret, cls, n) ==
    << <<loss, n>>, <<sent, n>>, <<ret, n>>, <<cls, n>> >>

\* lines 149-150: with an empty loader the division raises ZeroDivisionError
Return ==
    /\ pc = "return"
    /\ IF LenLoader = 0
         THEN Propagate("zero_division") /\ UNCHANGED result
         ELSE /\ result' = Returned(total_train_loss, total_sent_ret,
                                    total_sign_ret, total_sign_cls, LenLoader)
              /\ pc' = "done"
              /\ UNCHANGED exc
    /\ UNCHANGED <<inputs, epoch, batch_idx, locals, totals, grads, events,
                   calls, forwarded, backpropagated, applied, recorded,
                   sign_cls_args, sign_ret_args, wandb_log>>

\* the external calls of the loop body that may fail: the forward pass, a
\* provided loss function, backward() and opt.step()
Fallible ==
    \/ pc \in {"forward", "step"}
    \/ pc = "backward" /\ total_loss.requires_grad
    \/ pc = "sent_ret" /\ sent_ret_loss_fn
    \/ pc = "sign_cls" /\ sign_cls_loss_fn
    \/ pc = "sign_ret" /\ sign_ret_loss_fn

\* a failure that is caught and the batch skipped
Raise_swallowed ==
    /\ Fallible
    /\ exc' = pc
    /\ pc' = "loop"
    /\ UNCHANGED <<inputs, epoch, batch_idx, locals, totals, traces>>

\* an external call raises; train_loop has no try/except (lines 48-148)
Raise ==
    /\ Fallible
    /\ Propagate(pc)
    /\ UNCHANGED <<inputs, epoch, batch_idx, locals, totals, traces>>

\* the caller calls train_loop again for the next epoch, same loader, same
\* loss functions (lines 16-25, 42-47)
CallNextEpoch ==
    /\ pc = "done"
    /\ epoch < last_epoch
    /\ epoch' = epoch + 1
    /\ pc' = "loop"
    /\ exc' = "none"
    /\ batch_idx' = -1
    /\ target_indices' = Unbound
    /\ target_labels' = Unbound
    /\ target_indices_batch_idx' = Unbound
    /\ sent_ret' = Unbound
    /\ sign_ret' = Unbound
    /\ sign_cls' = Unbound
    /\ total_loss' = Unbound
    /\ current' = Unbound
    /\ total_train_loss' = 0
    /\ total_sent_ret' = 0
    /\ total_sign_ret' = 0
    /\ total_sign_cls' = 0
    /\ result' = <<>>
    /\ events' = <<>>
    /\ calls' = NoCalls
    /\ forwarded' = <<>>
    /\ backpropagated' = <<>>
    /\ applied' = <<>>
    /\ recorded' = <<>>
    /\ sign_cls_args' = Unbound
    /\ sign_ret_args' = Unbound
    /\ UNCHANGED <<inputs, grads, wandb_log>>

Next ==
    \/ NextBatch
    \/ ZeroGrad
    \/ Forward
    \/ SentRet
    \/ ComputeIndices
    \/ SignCls
    \/ SignRet
    \/ WeightedSum
    \/ Backward
    \/ OptStep
    \/ Synchronize
    \/ Accumulate
    \/ Log
    \/ Return
    \/ Raise

\* one call of train_loop
Spec == Init /\ [][Next]_vars

\* one call on a loader of one batch with any targets
InitBatch ==
    /\ cfg \in {c \in Configs : c.do_print /\ c.lda_sent_ret = 1
                                /\ c.lda_sign_ret = 2 /\ c.lda_sign_cls = 3}
    /\ cuda_available = TRUE
    /\ sent_ret_loss_fn \in BOOLEAN
    /\ sign_ret_loss_fn \in BOOLEAN
    /\ sign_cls_loss_fn \in BOOLEAN
    /\ epoch = 0
    /\ last_epoch = epoch
    /\ train_loader \in [1..1 -> RichBatches]
    /\ grads = {}
    /\ wandb_log = <<>>
    /\ Entry

SpecBatch == InitBatch /\ [][Next]_vars

\* consecutive calls for epochs 0..last_epoch on a loader of the same length,
\* with one loss function provided
InitEpochs ==
    /\ cfg \in {c \in Configs : c.lda_sent_ret = 1 /\ c.lda_sign_ret = 2
                                /\ c.lda_sign_cls = 3 /\ ~c.bce}
    /\ cuda_available \in BOOLEAN
    /\ \E f \in {<<TRUE, FALSE, FALSE>>, <<FALSE, TRUE, FALSE>>,
                  <<FALSE, FALSE, TRUE>>} :
         /\ sent_ret_loss_fn = f[1]
         /\ sign_ret_loss_fn = f[2]
         /\ sign_cls_loss_fn = f[3]
    /\ epoch = 0
    /\ last_epoch \in 0..MaxEpoch
    /\ train_loader \in SeqsUpTo({<< <<[index |-> 1, label |-> 0]>> >>},
                                 0, MaxBatches)
    /\ grads = {}
    /\ wandb_log = <<>>
    /\ Entry

NextEpochs == Next \/ CallNextEpoch

SpecEpochs == InitEpochs /\ [][NextEpochs]_vars

\* ------------------------------------------------------------------- claims
IsPrefix(s, t) == Len(s) <= Len(t) /\ s = SubSeq(t, 1, Len(s))

Opt(b, e) == IF b THEN <<e>> ELSE <<>>

IsStep(e) == e \notin {"indices", "cat_labels"}

\* the steps of one iteration as the claim orders them
StepOrder ==
    <<"zero_grad", "forward">>
    \o Opt(sent_ret_loss_fn, "sent_ret_loss_fn")
    \o Opt(sign_cls_loss_fn, "sign_cls_loss_fn")
    \o Opt(sign_ret_loss_fn, "sign_ret_loss_fn")
    \o <<"backward", "step", "accumulate">>
    \o Opt(cfg.do_print, "log")

\* the last iteration begun has run to its end
IterationDone == batch_idx >= 0 /\ pc \in {"loop", "return", "done"}

\* C1: in every iteration the steps run in the order zero_grad, forward, the
\* enabled losses, backward, step, accumulate, log (when printing), none
\* twice; a finished iteration ran them all; and at every opt.step() the
\* .grad fields held the gradient of the current batch and no other.
C1_StepOrder ==
    /\ IsPrefix(SelectSeq(events, IsStep), StepOrder)
    /\ IterationDone => SelectSeq(events, IsStep) = StepOrder
    /\ calls.step <= calls.backward
    /\ \A k \in 1..Len(applied) : applied[k] = {<<epoch, k - 1>>}

C1_Witness ==
    /\ pc = "done"
    /\ LenLoader = 2
    /\ Len(applied) = 2
    /\ sent_ret_loss_fn /\ sign_ret_loss_fn /\ sign_cls_loss_fn
    /\ cfg.do_print
    /\ Len(events) > 8

\* C2: for every batch, the value backward() was called on and the recorded
\* train loss both equal lda_sent_ret * sent_ret + lda_sign_ret * sign_ret +
\* lda_sign_cls * sign_cls of the batch's recorded terms.
C2_WeightedLoss ==
    /\ Len(recorded) <= Len(backpropagated)
    /\ \A k \in 1..Len(recorded) :
         /\ recorded[k].loss = cfg.lda_sent_ret * recorded[k].sent_ret
                               + cfg.lda_sign_ret * recorded[k].sign_ret
                               + cfg.lda_sign_cls * recorded[k].sign_cls
         /\ backpropagated[k] = recorded[k].loss

C2_Witness ==
    /\ Len(recorded) = 2
    /\ recorded[2].sent_ret = 1
    /\ recorded[2].sign_ret = 2
    /\ recorded[2].sign_cls = 1
    /\ cfg.lda_sign_ret # cfg.lda_sign_cls

Column(f) == [k \in 1..Len(recorded) |-> recorded[k][f]]

\* C3: the returned tuple is (train loss, sent_ret, sign_ret, sign_cls), each
\* the sum of the per-batch values over the processed batches divided by
\* len(train_loader), which is the number of processed batches.
C3_EpochMeans ==
    pc = "done" =>
        /\ Len(recorded) = LenLoader
        /\ LenLoader > 0
        /\ result = << <<SumSeq(Column("loss")), LenLoader>>,
                       <<SumSeq(Column("sent_ret")), LenLoader>>,
                       <<SumSeq(Column("sign_ret")), LenLoader>>,
                       <<SumSeq(Column("sign_cls")), LenLoader>> >>

C3_Witness ==
    /\ pc = "done"
    /\ LenLoader = 2
    /\ result[3][1] = 3
    /\ result[4][1] = 0
    /\ result[2][1] = 4

\* batches that got past the loss computations of this call
PastLosses ==
    IF IterationDone \/ pc \in {"sum", "backward", "step", "sync", "accumulate", "log"}
       \/ (pc = "raised" /\ exc \in {"no_grad", "backward", "step", "no_cuda"})
    THEN batch_idx + 1
    ELSE IF batch_idx < 0 THEN 0 ELSE batch_idx

TermOk(fn, name, pos) ==
    IF fn
    THEN /\ calls[name \o "_loss_fn"] \in {PastLosses, PastLosses + 1}
         /\ IterationDone => calls[name \o "_loss_fn"] = batch_idx + 1
         /\ pc = "done" => calls[name \o "_loss_fn"] = LenLoader
    ELSE /\ calls[name \o "_loss_fn"] = 0
         /\ \A k \in 1..Len(recorded) : recorded[k][name] = 0
         /\ pc = "done" => result[pos][1] = 0

\* C4: a loss function that is None is never called, its term is 0 in every
\* batch, adds nothing to the batch's loss and its returned mean is 0; a
\* provided loss function is called once per batch.
C4_OptionalTerms ==
    /\ TermOk(sent_ret_loss_fn, "sent_ret", 2)
    /\ TermOk(sign_ret_loss_fn, "sign_ret", 3)
    /\ TermOk(sign_cls_loss_fn, "sign_cls", 4)
    /\ \A k \in 1..Len(recorded) :
         recorded[k].loss =
             (IF sent_ret_loss_fn
                THEN cfg.lda_sent_ret * recorded[k].sent_ret ELSE 0)
           + (IF sign_ret_loss_fn
                THEN cfg.lda_sign_ret * recorded[k].sign_ret ELSE 0)
           + (IF sign_cls_loss_fn
                THEN cfg.lda_sign_cls * recorded[k].sign_cls ELSE 0)

C4_Witness ==
    /\ pc = "done"
    /\ LenLoader = 2
    /\ sent_ret_loss_fn /\ ~sign_ret_loss_fn /\ sign_cls_loss_fn
    /\ calls.sent_ret_loss_fn = 2
    /\ calls.sign_ret_loss_fn = 0
    /\ cfg.lda_sign_ret > 0

ExternalFailures ==
    {"forward", "sent_ret", "sign_cls", "sign_ret", "backward", "step"}

\* C5: when the forward pass, a loss function, backward() or opt.step()
\* raises, the call ends there: the failing batch gets no later step (no
\* opt.step(), no accumulation, no log entry), no further batch is begun
\* and nothing is returned.
C5_FailurePropagates ==
    exc \in ExternalFailures =>
        /\ pc = "raised"
        /\ result = <<>>
        /\ calls.step = batch_idx
        /\ calls.backward = (IF exc = "step" THEN batch_idx + 1 ELSE batch_idx)
        /\ Len(recorded) = batch_idx
        /\ Len(wandb_log) = (IF cfg.do_print THEN batch_idx ELSE 0)
        /\ Len(forwarded) = (IF exc = "forward" THEN batch_idx ELSE batch_idx + 1)
        /\ batch_idx < LenLoader

C5_Witness ==
    /\ pc = "raised"
    /\ exc = "backward"
    /\ batch_idx = 1
    /\ Len(recorded) = 1

\* C6: a call whose external calls do not fail processes each batch once in
\* loader order, with len(train_loader) forward passes, backward() calls and
\* opt.step() calls, and then returns.
C6_OneEpoch ==
    (pc \in {"done", "raised"} /\ exc \notin ExternalFailures) =>
        /\ pc = "done"
        /\ forwarded = train_loader
        /\ calls.forward = LenLoader
        /\ calls.backward = LenLoader
        /\ calls.step = LenLoader
        /\ result # <<>>

\* batches of this call that got past the logging step
PastLog == IF IterationDone THEN batch_idx + 1
           ELSE IF batch_idx < 0 THEN 0 ELSE batch_idx

\* C7: wandb.log is called once per batch, after the batch's opt.step(), when
\* cfg.do_print is true and never otherwise, and over consecutive epochs
\* 0, 1, 2, ... the logged train_iter grows strictly, no value twice.
C7_Logging ==
    /\ ~cfg.do_print => wandb_log = <<>>
    /\ cfg.do_print =>
         /\ Len(wandb_log) = epoch * LenLoader + PastLog
         /\ PastLog <= calls.step
    /\ \A i, j \in 1..Len(wandb_log) :
         i < j => wandb_log[i].train_iter < wandb_log[j].train_iter

C7_Witness ==
    /\ cfg.do_print
    /\ epoch = 1
    /\ LenLoader = 2
    /\ Len(wandb_log) = 4
    /\ pc = "done"

\* the sample and the place in it of the k-th target of a batch
Before(batch, i) == SumSeq([x \in 1..(i - 1) |-> Len(batch[x])])

Place(batch, k) ==
    LET i == CHOOSE x \in 1..Len(batch) :
                 Before(batch, x) < k /\ k <= Before(batch, x) + Len(batch[x])
    IN  <<i, k - Before(batch, i)>>

NumTargets(batch) == Before(batch, Len(batch) + 1)

AfterSignCls == {"sign_ret", "sum", "backward", "step", "sync", "accumulate", "log"}

AfterSignRet == {"sum", "backward", "step", "sync", "accumulate", "log"}

CountOf(e) == Len(SelectSeq(events, LAMBDA x : x = e))

\* C8: the labels handed to sign_ret_loss_fn are the integer class labels of
\* the batch's targets, concatenated; the label lists are concatenated once
\* per batch; with BCEWithLogitsLoss the one-hot targets go to the sign
\* classification call only.
C8_SignRetLabels ==
    /\ exc # "cat"
    /\ CountOf("cat_labels") <= 1
    /\ (pc \in AfterSignRet /\ (sign_ret_loss_fn \/ sign_cls_loss_fn)) =>
           CountOf("cat_labels") = 1
    /\ (pc \in AfterSignRet /\ sign_ret_loss_fn) =>
         /\ sign_ret_args.labels.kind = "tensor"
         /\ Len(sign_ret_args.labels.val) = NumTargets(Batch)
         /\ \A k \in 1..NumTargets(Batch) :
              sign_ret_args.labels.val[k] =
                  Batch[Place(Batch, k)[1]][Place(Batch, k)[2]].label
    /\ (pc \in AfterSignCls /\ sign_cls_loss_fn) =>
         /\ sign_cls_args.target_labels.kind =
                (IF cfg.bce THEN "matrix" ELSE "tensor")
         /\ target_labels.kind = "tensor"

C8_Witness ==
    /\ pc = "sum"
    /\ cfg.bce
    /\ sign_ret_loss_fn /\ sign_cls_loss_fn
    /\ sign_cls_args.target_labels.kind = "matrix"
    /\ sign_ret_args.labels = Tensor(<<1, 0, 0>>)

AfterIndices == {"sign_cls"} \cup AfterSignCls

\* C9: when a sign loss is provided the index pairs are (i, t) for every
\* sample i and every t of target_indices[i], by sample and then by place in
\* the sample, as many as there are target indices, the k-th pair belonging
\* to the k-th concatenated label; both sign losses use them; when neither is
\* provided no index is computed.
C9_IndexPairs ==
    /\ (pc \in AfterIndices /\ (sign_cls_loss_fn \/ sign_ret_loss_fn)) =>
         LET pairs == IndexPairs(target_indices_batch_idx.val, target_indices.val)
         IN  /\ Len(target_indices_batch_idx.val) = NumTargets(Batch)
             /\ Len(target_indices.val) = NumTargets(Batch)
             /\ \A k \in 1..NumTargets(Batch) :
                  LET at == Place(Batch, k)
                  IN  pairs[k] = <<at[1] - 1, Batch[at[1]][at[2]].index>>
             /\ (pc \in AfterSignCls /\ sign_cls_loss_fn) =>
                    sign_cls_args.predicted_logits = pairs
             /\ (pc \in AfterSignRet /\ sign_ret_loss_fn) =>
                  /\ sign_ret_args.video_tokens = pairs
                  /\ \A k \in 1..NumTargets(Batch) :
                       LET at == Place(Batch, k)
                       IN  sign_ret_args.labels.val[k] = Batch[at[1]][at[2]].label
    /\ (~sign_cls_loss_fn /\ ~sign_ret_loss_fn) =>
         /\ CountOf("indices") = 0
         /\ target_indices_batch_idx = Unbound
         /\ target_indices.kind \in {"unbound", "list"}

C9_Witness ==
    /\ pc = "sum"
    /\ sign_ret_loss_fn
    /\ Len(Batch) = 2
    /\ Len(Batch[1]) = 0
    /\ sign_ret_args.video_tokens = << <<1, 1>>, <<1, 0>> >>
====
